---- MODULE Spec2Model ----
(***************************************************************************)
(* WarmLeggs backend: the product catalog endpoints and the checkout      *)
(* computation of src/main.py, with the declared field constraints of     *)
(* src/schemas.py.  Money is counted in whole currency units.             *)
(***************************************************************************)
EXTENDS Integers, Sequences, FiniteSets, TLC

VARIABLES
    products,     \* the "product" collection: ObjectId -> document
    orders,       \* the "order" collection: ObjectId -> document
    nextId,       \* the next ObjectId the store hands out
    pc,           \* position of the checkout request in flight
    payload,      \* checkout: the CheckoutRequest being processed
    idx,          \* checkout: 1-based position of the for loop in payload.items
    order_items,  \* checkout: local list order_items
    subtotal,     \* checkout: local accumulator subtotal
    calls,        \* store calls made by the current (or the last) checkout
    resp          \* the HTTP response the last step sent (NoResponse if none)

vars == <<products, orders, nextId, pc, payload, idx, order_items, subtotal, calls, resp>>

ckvars == <<pc, payload, idx, order_items, subtotal, calls>>

-----------------------------------------------------------------------------
(* Bounds of the model *)

\* ObjectIds the store hands out in one behaviour (products and orders together)
MaxIds == 2

\* longest cart a checkout request carries
MaxCart == 2

-----------------------------------------------------------------------------
(* Values *)

\* Python None in an Optional[str] field
None == "None"

\* a required text field the request body leaves out
Missing == "<missing>"

\* Optional[int] / Optional[bool]: <<>> is None, <<v>> is the value v
NoneOpt == <<>>

Some(v) == <<v>>

\* str(ObjectId(n)): the 24-digit hex text of the n-th ObjectId
OidStr(n) == [hex |-> TRUE, n |-> n]

\* a product_id text that is no 24-digit hex string
BadIdStr == [hex |-> FALSE, n |-> 0]

\* no identifier: a response that carries none, a body that leaves product_id out
NoIdStr == [hex |-> FALSE, n |-> -1]

\* bson.ObjectId(text): the ObjectId, or InvalidId raised
ObjectId(s) == IF s.hex THEN [ok |-> TRUE, oid |-> s.n] ELSE [ok |-> FALSE, oid |-> 0]

-----------------------------------------------------------------------------
(* schemas.py: declared field constraints *)

\* the Product schema with the ge=0 constraint on price left out
ValidProduct_noprice(p) ==
    /\ p.title # Missing
    /\ \/ p.warmth_rating = NoneOpt
       \/ (p.warmth_rating[1] >= 1 /\ p.warmth_rating[1] <= 5)

\* Product: title required, price ge=0, warmth_rating Optional, ge=1, le=5
ValidProduct(p) ==
    /\ p.title # Missing
    /\ p.price >= 0
    /\ \/ p.warmth_rating = NoneOpt
       \/ (p.warmth_rating[1] >= 1 /\ p.warmth_rating[1] <= 5)

\* OrderItem: title required str, price ge=0, quantity ge=1
ValidOrderItem(oi) ==
    /\ oi.title # None
    /\ oi.price >= 0
    /\ oi.quantity >= 1

\* Order: subtotal ge=0, shipping_cost ge=0, total ge=0
ValidOrder(o) ==
    /\ o.customer_name # Missing
    /\ o.subtotal >= 0
    /\ o.shipping_cost >= 0
    /\ o.total >= 0

\* CartItem: product_id: str, quantity: int = 1 (no range constraint declared)
ValidCartItem(ci) == ci.product_id # NoIdStr

\* CheckoutRequest: items: List[CartItem], customer_name/email/address required
ValidCheckoutRequest(p) ==
    /\ \A k \in DOMAIN p.items : ValidCartItem(p.items[k])
    /\ p.customer_name # Missing
    /\ p.customer_email # Missing
    /\ p.shipping_address # Missing

-----------------------------------------------------------------------------
(* Request bodies the clients send *)

ProductBodies ==
    { [title |-> "A", price |-> 20, featured |-> FALSE, warmth_rating |-> Some(5)],
      [title |-> "B", price |-> 50, featured |-> TRUE,  warmth_rating |-> NoneOpt],
      [title |-> "C", price |-> 0,  featured |-> TRUE,  warmth_rating |-> Some(1)],
      [title |-> "A", price |-> -1, featured |-> FALSE, warmth_rating |-> Some(5)],
      [title |-> "B", price |-> 50, featured |-> TRUE,  warmth_rating |-> Some(0)],
      [title |-> "B", price |-> 0,  featured |-> FALSE, warmth_rating |-> Some(6)] }

CartLines ==
    { [product_id |-> OidStr(1), quantity |-> 2, color |-> "red", size |-> None],
      [product_id |-> OidStr(2), quantity |-> 1, color |-> None,  size |-> "M"],
      [product_id |-> OidStr(1), quantity |-> 0, color |-> None,  size |-> None],
      [product_id |-> BadIdStr,  quantity |-> 1, color |-> None,  size |-> None] }

Carts == UNION { [1..n -> CartLines] : n \in 0..MaxCart }

CheckoutBody(items, name) ==
    [items |-> items, customer_name |-> name, customer_email |-> "ann@example.org",
     shipping_address |-> "1 Main St", notes |-> None]

CheckoutBodies ==
    { CheckoutBody(c, "Ann") : c \in Carts } \cup { CheckoutBody(<<>>, Missing) }

NoPayload == CheckoutBody(<<>>, Missing)

\* what an edit of a product document through the database viewer sets
Patches == { [title |-> "Z", price |-> 100] }

-----------------------------------------------------------------------------
(* Responses *)

Response(op, status, kind, id, items) ==
    [op |-> op, status |-> status, detail |-> kind, id |-> id, items |-> items]

NoResponse == Response("none", 0, "none", NoIdStr, <<>>)

NoCalls == [find |-> 0, insert |-> 0]

-----------------------------------------------------------------------------
(* database.py: the document store *)

\* create_document: the collection with the document stored under a fresh _id
create_document(coll, doc) == coll @@ (nextId :> doc)

RECURSIVE IdsAsc(_)
IdsAsc(S) ==
    IF S = {} THEN <<>>
    ELSE LET m == CHOOSE x \in S : \A y \in S : x <= y
         IN  <<m>> \o IdsAsc(S \ {m})

\* get_documents: the documents matching the equality query, in storage order,
\* each with its _id
get_documents(coll, query) ==
    LET match == { i \in DOMAIN coll : query = <<>> \/ coll[i].featured = query[1] }
        ids == IdsAsc(match)
    IN  [k \in DOMAIN ids |-> [_id |-> ids[k], doc |-> coll[ids[k]]]]

-----------------------------------------------------------------------------
(* main.py: GET /products *)

\* ProductResponse(**d) after d["id"] = str(d.pop("_id"))
ProductResponse(d) ==
    [id |-> OidStr(d._id), title |-> d.doc.title, price |-> d.doc.price,
     featured |-> d.doc.featured, warmth_rating |-> d.doc.warmth_rating]

\* list_products with the featured filter never put into the query
list_products_unfiltered(featured) ==
    LET docs == get_documents(products, <<>>)
    IN  [k \in DOMAIN docs |-> ProductResponse(docs[k])]

list_products(featured) ==
    LET query == IF featured # NoneOpt THEN featured ELSE <<>>
        docs == get_documents(products, query)
    IN  [k \in DOMAIN docs |-> ProductResponse(docs[k])]

ListProducts ==
    /\ \E featured \in {NoneOpt, Some(TRUE), Some(FALSE)}, dbok \in BOOLEAN :
          resp' = IF dbok
                  THEN Response("list_products", 200, "ok", NoIdStr,
                                list_products(featured))
                  ELSE Response("list_products", 500, "StorageError", NoIdStr,
                                <<>>)
    /\ UNCHANGED <<products, orders, nextId, ckvars>>

-----------------------------------------------------------------------------
(* main.py: POST /products *)

create_product(product, dbok) ==
    IF ~ValidProduct(product)
    THEN /\ resp' = Response("create_product", 422, "ValidationError", NoIdStr, <<>>)
         /\ UNCHANGED <<products, nextId>>
    ELSE IF ~dbok
    THEN /\ resp' = Response("create_product", 500, "StorageError", NoIdStr, <<>>)
         /\ UNCHANGED <<products, nextId>>
    ELSE /\ products' = create_document(products, product)
         /\ nextId' = nextId + 1
         /\ resp' = Response("create_product", 200, "ok", OidStr(nextId), <<>>)

CreateProduct ==
    /\ nextId <= MaxIds
    /\ \E product \in ProductBodies, dbok \in BOOLEAN : create_product(product, dbok)
    /\ UNCHANGED <<orders, ckvars>>

-----------------------------------------------------------------------------
(* The database viewer edits or removes product documents directly *)

ExternalProductUpdate ==
    /\ \E i \in DOMAIN products, patch \in Patches :
          /\ products[i].title # patch.title \/ products[i].price # patch.price
          /\ products' = [products EXCEPT ![i].title = patch.title,
                                          ![i].price = patch.price]
    /\ resp' = NoResponse
    /\ UNCHANGED <<orders, nextId, ckvars>>

ExternalProductDelete ==
    /\ \E i \in DOMAIN products :
          products' = [j \in DOMAIN products \ {i} |-> products[j]]
    /\ resp' = NoResponse
    /\ UNCHANGED <<orders, nextId, ckvars>>

-----------------------------------------------------------------------------
(* main.py: POST /checkout *)

CheckoutResponse(status, kind, id) ==
    Response("checkout", status, kind, id, <<>>)

\* the request leaves the handler: its locals are gone
CheckoutReturn ==
    /\ pc' = "idle"
    /\ payload' = NoPayload
    /\ idx' = 1
    /\ order_items' = <<>>
    /\ subtotal' = 0

\* request validation against CheckoutRequest, then the handler's first lines
CheckoutStart ==
    /\ pc = "idle"
    /\ \E body \in CheckoutBodies :
          IF ~ValidCheckoutRequest(body)
          THEN /\ resp' = Response("checkout", 422, "ValidationError", NoIdStr, <<>>)
               /\ calls' = NoCalls
               /\ UNCHANGED <<pc, payload, idx, order_items, subtotal>>
          ELSE /\ pc' = "loop"
               /\ payload' = body
               /\ idx' = 1
               /\ order_items' = <<>>
               /\ subtotal' = 0
               /\ calls' = NoCalls
               /\ resp' = NoResponse
    /\ UNCHANGED <<products, orders, nextId>>

\* price = float(prod.get("price", 0))
PriceOf(prod) == prod.price

\* the accumulation with the quantity left out
Accumulate_noqty(sub, price, quantity) == sub + price

\* subtotal += price * item.quantity
Accumulate(sub, price, quantity) == sub + price * quantity

\* the snapshot with the price default taken instead of the product's price
Snapshot_defaultprice(item, prod) ==
    [product_id |-> item.product_id, title |-> prod.title, price |-> 0,
     color |-> item.color, size |-> item.size, quantity |-> item.quantity]

\* OrderItem(product_id=..., title=prod.get("title"), price=price, ...)
Snapshot(item, prod) ==
    [product_id |-> item.product_id, title |-> prod.title, price |-> PriceOf(prod),
     color |-> item.color, size |-> item.size, quantity |-> item.quantity]

\* one pass of the body of `for item in payload.items`
CheckoutLine ==
    /\ pc = "loop"
    /\ idx <= Len(payload.items)
    /\ LET item == payload.items[idx]
           parsed == ObjectId(item.product_id)
       IN  IF ~parsed.ok
           THEN /\ resp' = CheckoutResponse(500, "InvalidId", NoIdStr)
                /\ CheckoutReturn
                /\ UNCHANGED calls
           ELSE /\ calls' = [calls EXCEPT !.find = @ + 1]
                /\ \E dbok \in BOOLEAN :
                      IF ~dbok
                      THEN /\ resp' = CheckoutResponse(500, "StorageError", NoIdStr)
                           /\ CheckoutReturn
                      ELSE IF parsed.oid \notin DOMAIN products
                      THEN /\ resp' = CheckoutResponse(404, "NotFound", item.product_id)
                           /\ CheckoutReturn
                      ELSE LET prod == products[parsed.oid]
                               oi == Snapshot(item, prod)
                           IN  IF ~ValidOrderItem(oi)
                               THEN /\ resp' = CheckoutResponse(500, "ValidationError", NoIdStr)
                                    /\ CheckoutReturn
                               ELSE /\ subtotal' = Accumulate(subtotal, PriceOf(prod), item.quantity)
                                    /\ order_items' = Append(order_items, oi)
                                    /\ idx' = idx + 1
                                    /\ resp' = NoResponse
                                    /\ UNCHANGED <<pc, payload>>
    /\ UNCHANGED <<products, orders, nextId>>

FreeShippingThreshold == 100

FlatShipping == 10

\* the threshold compared strictly
ShippingCost_gt(sub) == IF sub > FreeShippingThreshold THEN 0 ELSE FlatShipping

\* shipping_cost = 0 if subtotal >= 100 else 10
ShippingCost(sub) == IF sub >= FreeShippingThreshold THEN 0 ELSE FlatShipping

\* the total with the shipping cost left out
Total_noshipping(sub, shipping) == sub

\* total = subtotal + shipping_cost
Total(sub, shipping) == sub + shipping

\* Order(items=order_items, ..., status="pending", notes=payload.notes)
BuildOrder ==
    [items |-> order_items,
     customer_name |-> payload.customer_name,
     customer_email |-> payload.customer_email,
     shipping_address |-> payload.shipping_address,
     subtotal |-> subtotal,
     shipping_cost |-> ShippingCost(subtotal),
     total |-> Total(subtotal, ShippingCost(subtotal)),
     status |-> "pending",
     notes |-> payload.notes]

\* the lines after the loop: totals, Order(...), create_document("order", order),
\* run once `after_loop` holds
CheckoutInsertWhen(after_loop) ==
    /\ pc = "loop"
    /\ after_loop
    /\ nextId <= MaxIds
    /\ LET order == BuildOrder
       IN  IF ~ValidOrder(order)
           THEN /\ resp' = CheckoutResponse(500, "ValidationError", NoIdStr)
                /\ UNCHANGED <<orders, nextId, calls>>
           ELSE /\ calls' = [calls EXCEPT !.insert = @ + 1]
                /\ \E dbok \in BOOLEAN :
                      IF ~dbok
                      THEN /\ resp' = CheckoutResponse(500, "StorageError", NoIdStr)
                           /\ UNCHANGED <<orders, nextId>>
                      ELSE /\ orders' = create_document(orders, order)
                           /\ nextId' = nextId + 1
                           /\ resp' = CheckoutResponse(200, "ok", OidStr(nextId))
    /\ CheckoutReturn
    /\ UNCHANGED products

\* the insert indented into the loop body: it runs after the first line already
CheckoutInsert_inloop == CheckoutInsertWhen(idx > 1 \/ idx > Len(payload.items))

CheckoutInsert == CheckoutInsertWhen(idx > Len(payload.items))

-----------------------------------------------------------------------------

Init ==
    /\ products = <<>>
    /\ orders = <<>>
    /\ nextId = 1
    /\ pc = "idle"
    /\ payload = NoPayload
    /\ idx = 1
    /\ order_items = <<>>
    /\ subtotal = 0
    /\ calls = NoCalls
    /\ resp = NoResponse

\* the catalog and the checkout; the read-only listing is left to SpecCatalog
Next ==
    \/ CreateProduct
    \/ ExternalProductUpdate
    \/ ExternalProductDelete
    \/ CheckoutStart
    \/ CheckoutLine
    \/ CheckoutInsert

Spec == Init /\ [][Next]_vars

\* the catalog alone: products created, listed, edited and removed
NextCatalog ==
    \/ ListProducts
    \/ CreateProduct
    \/ ExternalProductUpdate
    \/ ExternalProductDelete

SpecCatalog == Init /\ [][NextCatalog]_vars

-----------------------------------------------------------------------------
(* Properties *)

RECURSIVE SumLines(_)
\* sum over the lines of price x quantity
SumLines(items) ==
    IF items = <<>> THEN 0
    ELSE items[1].price * items[1].quantity + SumLines(Tail(items))

\* the product_id text resolves to no product of the catalog
Unresolvable(s) == ~s.hex \/ s.n \notin DOMAIN products

\* lines of the request in flight that the loop has not passed yet
LinesLeft == { k \in DOMAIN payload.items : k >= idx }

\* this step answers the checkout request in flight
CheckoutAnswered == pc = "loop" /\ pc' = "idle"

\* orders the step has added to the order store
NewOrders == DOMAIN orders' \ DOMAIN orders

\* C1: a checkout whose cart holds an unresolvable product_id, at any position,
\* is answered 404 NotFound naming that product_id (a storage failure aside), and
\* the order store insert is never called for it: no order is persisted.
C1_UnresolvableIsNotFound ==
    [][ (/\ CheckoutAnswered
         /\ \E k \in LinesLeft : Unresolvable(payload.items[k].product_id)
         /\ resp'.detail # "StorageError")
        => (/\ resp'.status = 404
            /\ resp'.detail = "NotFound"
            /\ \E k \in LinesLeft : /\ Unresolvable(payload.items[k].product_id)
                                    /\ resp'.id = payload.items[k].product_id
            /\ calls'.insert = 0
            /\ orders' = orders) ]_vars

\* C2: a checkout request with a cart line of quantity < 1 is answered with a
\* validation (client) error before any store interaction: no product lookup and
\* no order insert is made for it.
C2_BadQuantityRejectedBeforeStore ==
    [][ (/\ CheckoutAnswered
         /\ \E k \in DOMAIN payload.items : payload.items[k].quantity < 1)
        => (/\ resp'.status = 422
            /\ resp'.detail = "ValidationError"
            /\ calls'.find = 0
            /\ calls'.insert = 0) ]_vars

\* C3: every order checkout persists has a non-empty items list with exactly one
\* OrderItem per cart line, in cart order.
C3_OrdersNonEmptyOnePerLine ==
    [][ \A i \in NewOrders :
          LET o == orders'[i]
          IN  /\ Len(o.items) >= 1
              /\ Len(o.items) = Len(payload.items)
              /\ \A k \in DOMAIN o.items :
                    /\ o.items[k].product_id = payload.items[k].product_id
                    /\ o.items[k].quantity = payload.items[k].quantity
                    /\ o.items[k].color = payload.items[k].color
                    /\ o.items[k].size = payload.items[k].size ]_vars

\* C4: for every order, shipping_cost = 0 iff subtotal >= 100, and shipping_cost = 10
\* otherwise (so a subtotal of exactly 100 ships free).
C4_ShippingThreshold ==
    \A i \in DOMAIN orders :
        /\ (orders[i].shipping_cost = 0) <=> (orders[i].subtotal >= 100)
        /\ (orders[i].subtotal < 100) => (orders[i].shipping_cost = 10)

C4_Witness ==
    \E i \in DOMAIN orders : orders[i].subtotal = 100 /\ orders[i].shipping_cost = 0

\* C5: every order in the order store satisfies total = subtotal + shipping_cost.
C5_TotalIsSubtotalPlusShipping ==
    \A i \in DOMAIN orders :
        orders[i].total = orders[i].subtotal + orders[i].shipping_cost

C5_Witness ==
    \E i \in DOMAIN orders :
        /\ orders[i].items # <<>>
        /\ orders[i].shipping_cost = 10
        /\ orders[i].total = orders[i].subtotal + 10

\* C6: the subtotal of every order is the sum over its lines of the price stored in
\* the line's OrderItem times the line's quantity; the same holds of the running
\* subtotal of the checkout in flight.
C6_SubtotalIsSumOfLines ==
    /\ \A i \in DOMAIN orders : orders[i].subtotal = SumLines(orders[i].items)
    /\ subtotal = SumLines(order_items)

C6_Witness ==
    \E i \in DOMAIN orders :
        /\ Len(orders[i].items) = 2
        /\ orders[i].items[1].price # orders[i].items[2].price
        /\ orders[i].subtotal = SumLines(orders[i].items)

\* one order's figures agree with each other
Consistent(o) ==
    /\ o.subtotal = SumLines(o.items)
    /\ o.shipping_cost = (IF o.subtotal >= 100 THEN 0 ELSE 10)
    /\ o.total = o.subtotal + o.shipping_cost

\* C7: an OrderItem's title and price are the product's values at the step that
\* resolves the cart line; a change or removal of a product, before or after the
\* order is inserted, leaves the snapshots taken so far and every persisted order
\* unchanged, and every persisted order stays consistent.
C7_SnapshotFrozen ==
    [][ /\ (Len(order_items') = Len(order_items) + 1)
           => LET oi == order_items'[Len(order_items')]
              IN  /\ oi.product_id.n \in DOMAIN products
                  /\ oi.title = products[oi.product_id.n].title
                  /\ oi.price = products[oi.product_id.n].price
                  /\ SubSeq(order_items', 1, Len(order_items)) = order_items
        /\ (products' # products)
           => /\ order_items' = order_items
              /\ subtotal' = subtotal
              /\ \A i \in DOMAIN orders : i \in DOMAIN orders' /\ orders'[i] = orders[i]
        /\ \A i \in NewOrders : orders'[i].items = order_items
        /\ \A i \in DOMAIN orders' : Consistent(orders'[i]) ]_vars

\* an order whose two lines name the same product at two prices, with the product
\* gone from the catalog since
C7_Witness ==
    \E i \in DOMAIN orders :
        /\ Len(orders[i].items) = 2
        /\ orders[i].items[1].product_id = orders[i].items[2].product_id
        /\ orders[i].items[1].price # orders[i].items[2].price
        /\ orders[i].items[1].title # orders[i].items[2].title
        /\ orders[i].items[1].product_id.n \notin DOMAIN products

\* C8: an order is one write made after every cart line is resolved: a checkout
\* makes at most one order insert and no other write, a failing checkout leaves
\* both stores unchanged, and an order in the store is never modified or deleted.
C8_SingleWriteAfterResolution ==
    [][ /\ \A i \in DOMAIN orders : i \in DOMAIN orders' /\ orders'[i] = orders[i]
        /\ Cardinality(NewOrders) <= 1
        /\ (NewOrders # {})
           => /\ CheckoutAnswered
              /\ Len(order_items) = Len(payload.items)
              /\ calls.find = Len(payload.items)
              /\ calls.insert = 0
              /\ calls'.insert = 1
              /\ resp'.op = "checkout" /\ resp'.status = 200
        /\ calls'.insert <= 1
        /\ (ckvars' # ckvars \/ resp'.op = "checkout") => products' = products
        /\ (resp'.op = "checkout" /\ resp'.status # 200)
           => (orders' = orders /\ products' = products) ]_vars

C8_Witness ==
    /\ resp.op = "checkout" /\ resp.status = 200
    /\ calls = [find |-> 2, insert |-> 1]
    /\ resp.id.n \in DOMAIN orders
    /\ Len(orders[resp.id.n].items) = 2

\* the body breaks a declared constraint of Product on price or warmth_rating
BreaksProductConstraint(body) ==
    \/ body.price < 0
    \/ body.warmth_rating # <<>> /\ ~(body.warmth_rating[1] \in 1..5)

\* C9: create_product answers a body with price < 0 or warmth_rating outside 1..5
\* with a validation error and leaves the catalog unchanged; every product a step
\* adds to the catalog has price >= 0 and a warmth_rating of None or 1..5.
C9_InvalidProductRejected ==
    [][ /\ \A body \in ProductBodies, dbok \in BOOLEAN :
              (create_product(body, dbok) /\ BreaksProductConstraint(body))
              => (products' = products /\ resp'.status = 422)
        /\ \A i \in DOMAIN products' \ DOMAIN products :
              ~BreaksProductConstraint(products'[i]) ]_vars

C9_Witness ==
    /\ resp.op = "create_product" /\ resp.status = 422
    /\ products # <<>>

\* the fields of a listed product, without the identifier
Fields(r) ==
    [title |-> r.title, price |-> r.price, featured |-> r.featured,
     warmth_rating |-> r.warmth_rating]

\* the listing holds exactly the products with identifiers in ids, each once, with
\* their stored fields
ListsExactly(listing, ids) ==
    /\ Len(listing) = Cardinality(ids)
    /\ \A i \in ids : \E k \in DOMAIN listing : listing[k].id = OidStr(i)
    /\ \A k \in DOMAIN listing :
          /\ listing[k].id.hex
          /\ listing[k].id.n \in ids
          /\ Fields(listing[k]) = Fields(products[listing[k].id.n])

\* C10: the unfiltered listing holds every stored product exactly once, fields
\* preserved, under the identifier its insert returned; listing with featured=b
\* holds exactly the stored products whose featured field is b.
C10_ListRoundTrip ==
    /\ ListsExactly(list_products(NoneOpt), DOMAIN products)
    /\ \A b \in BOOLEAN :
          ListsExactly(list_products(Some(b)),
                       { i \in DOMAIN products : products[i].featured = b })
    /\ (resp.op = "create_product" /\ resp.status = 200)
       => /\ resp.id.n \in DOMAIN products
          /\ Cardinality({ k \in DOMAIN list_products(NoneOpt) :
                              list_products(NoneOpt)[k].id = resp.id }) = 1
    /\ (resp.op = "list_products" /\ resp.status = 200)
       => \E f \in {NoneOpt, Some(TRUE), Some(FALSE)} :
             resp.items = list_products(f)

C10_Witness ==
    /\ resp.op = "create_product" /\ resp.status = 200
    /\ Cardinality(DOMAIN products) = 2
    /\ Len(list_products(Some(TRUE))) = 1
    /\ Len(list_products(Some(FALSE))) = 1

====
